---- MODULE Spec2Model ----
(***************************************************************************)
(* Model of l2d/pdal.py (lidar2dems): the PDAL pipeline builders, the      *)
(* pipeline executor run_pipeline, the ground classification workflow      *)
(* classify/merge_files and the DEM orchestrator create_dem/create_dems.   *)
(*                                                                         *)
(* A path or a formatted string is the sequence of the pieces that the     *)
(* code concatenates: 'dtm_r0.56.max.tif' is                               *)
(* <<"", "dtm", "_r", "0.56", "", ".", "max", ".", "tif">>.  The output    *)
(* directory is the same for every file of a request and is left out.      *)
(* A pipeline is the list json['pipeline'], in list order.                 *)
(***************************************************************************)
EXTENDS Integers, Sequences, FiniteSets, TLC

\* ------------------------------------------------------------------ bounds
\* most input files of a request
MaxFiles == 2
\* longest radius list of a create_dems request
MaxRadii == 2
\* most top-level calls made with the same arguments
MaxCalls == 2
\* most files already on disk before the first call
MaxStale == 2

\* ------------------------------------------------------------- input values
None == "None"

InputNames == <<"a.las", "b.las", "c.las", "d.las">>
Filenames(n) == SubSeq(InputNames, 1, n)

DemTypes == {"dtm", "dsm", "density"}
Sites == {None, "plot1"}
Suffixes == {"", "_v2"}
Exts == {"tif", "vrt"}
ProductLists == {<<"den">>, <<"max">>, <<"den", "max">>, <<"max", "idw">>}

ToStr(k) == <<"0", "1", "2", "3", "4", "5", "6", "7", "8", "9">>[k + 1]

Range(s) == {s[k] : k \in 1..Len(s)}

IsPrefix(p, s) == Len(p) <= Len(s) /\ SubSeq(s, 1, Len(p)) = p

\* site.Basename() and site.WKT() of the caller's site object
Basename(site) == site
WKT(site) == <<"POLYGON", site>>

\* ------------------------------------------------------- pipeline builders
\* list.insert(0, x)
Insert0(json, stage) == <<stage>> \o json

_json_base == <<>>

_json_gdal_base(fout, output, radius, resolution) ==
    LET out == IF Len(output) > 1 THEN <<output[1]>> ELSE output
    IN  Insert0(_json_base,
                [type |-> "writers.gdal",
                 resolution |-> resolution,
                 radius |-> radius,
                 filename |-> fout \o <<".", out[1], ".", "tif">>,
                 output_type |-> out[1]])

_json_las_base(fout) ==
    Insert0(_json_base, [type |-> "writers.las", filename |-> fout])

_json_add_decimation_filter(json, step) ==
    Insert0(json, [type |-> "filters.decimation", step |-> step])

\* a range expression 'Field[low:high]' is <<Field, low, high>>, an open
\* bound the empty string; first a classification filter that ignores its
\* equality argument
_json_add_classification_filter_equals(json, classification, equality) ==
    Insert0(json, [type |-> "filters.range",
                   limits |-> <<"Classification", classification, classification>>])

_json_add_classification_filter(json, classification, equality) ==
    LET limits == IF equality = "max"
                  THEN <<"Classification", "", classification>>
                  ELSE <<"Classification", classification, classification>>
    IN  Insert0(json, [type |-> "filters.range", limits |-> limits])

_json_add_maxsd_filter(json, meank, thresh) ==
    Insert0(json, [type |-> "filters.outlier", method |-> "statistical",
                   mean_k |-> meank, multiplier |-> thresh])

_json_add_maxz_filter(json, maxz) ==
    Insert0(json, [type |-> "filters.range", limits |-> <<"Z", "", maxz>>])

\* str(-float(maxabsangle)): '15' gives '-15.0'; an angle written with a
\* decimal point keeps its digits
StrNegFloat(a) == CASE a = "15" -> "-15.0"
                    [] a = "7.5" -> "-7.5"
                    [] OTHER -> "-" \o a

_json_add_maxangle_filter(json, maxabsangle) ==
    Insert0(json, [type |-> "filters.range",
                   limits |-> <<"ScanAngleRank", StrNegFloat(maxabsangle), maxabsangle>>])

_json_add_returnnum_filter(json, value) ==
    Insert0(json, [type |-> "filters.range", limits |-> <<"ReturnNum", value, value>>])

\* the optional filters added in the opposite order
_json_add_filters_reversed(json, maxsd, maxz, maxangle, returnnum) ==
    LET j1 == IF returnnum # None THEN _json_add_returnnum_filter(json, returnnum) ELSE json
        j2 == IF maxangle # None THEN _json_add_maxangle_filter(j1, maxangle) ELSE j1
        j3 == IF maxz # None THEN _json_add_maxz_filter(j2, maxz) ELSE j2
        j4 == IF maxsd # None THEN _json_add_maxsd_filter(j3, "20", maxsd) ELSE j3
    IN  j4

\* the scan-angle filter added under the condition of the elevation filter
_json_add_filters_misguarded(json, maxsd, maxz, maxangle, returnnum) ==
    LET j1 == IF maxsd # None THEN _json_add_maxsd_filter(json, "20", maxsd) ELSE json
        j2 == IF maxz # None THEN _json_add_maxz_filter(j1, maxz) ELSE j1
        j3 == IF maxz # None THEN _json_add_maxangle_filter(j2, maxangle) ELSE j2
        j4 == IF returnnum # None THEN _json_add_returnnum_filter(j3, returnnum) ELSE j3
    IN  j4

_json_add_filters(json, maxsd, maxz, maxangle, returnnum) ==
    LET j1 == IF maxsd # None THEN _json_add_maxsd_filter(json, "20", maxsd) ELSE json
        j2 == IF maxz # None THEN _json_add_maxz_filter(j1, maxz) ELSE j1
        j3 == IF maxangle # None THEN _json_add_maxangle_filter(j2, maxangle) ELSE j2
        j4 == IF returnnum # None THEN _json_add_returnnum_filter(j3, returnnum) ELSE j3
    IN  j4

_json_add_crop_filter(json, wkt) ==
    Insert0(json, [type |-> "filters.crop", polygon |-> wkt])

\* os.path.abspath(filename)
_json_add_reader(json, filename) ==
    Insert0(json, [type |-> "readers.las", filename |-> <<"abs", filename>>])

RECURSIVE AddReadersFrom(_, _, _)
AddReadersFrom(json, filenames, k) ==
    IF k > Len(filenames) THEN json
    ELSE AddReadersFrom(_json_add_reader(json, filenames[k]), filenames, k + 1)

_json_add_readers(json, filenames) ==
    LET j == AddReadersFrom(json, filenames, 1)
    IN  IF Len(filenames) > 1 THEN Insert0(j, [type |-> "filters.merge"]) ELSE j

\* ------------------------------------------------------------------ names
\* create_dem: bname = ('' if site is None else site.Basename() + '_')
\*             then '%s%s_r%s%s' % (bname, demtype, radius, suffix)
SiteBname(site) == IF site = None THEN <<"">> ELSE <<Basename(site), "_">>

\* a create_dem that puts the suffix before the radius
DemBnameSuffixFirst(site, demtype, radius, suffix) ==
    SiteBname(site) \o <<demtype, suffix, "_r", radius>>

DemBname(site, demtype, radius, suffix) ==
    SiteBname(site) \o <<demtype, "_r", radius, suffix>>

\* create_dem: fouts = {o: bname + '.%s.%s' % (o, ext) for o in products}
DemFouts(bname, products, ext) ==
    [o \in Range(products) |-> bname \o <<".", o, ".", ext>>]

\* create_dems: bname + '%s%s.%s.tif' % (demtype, suffix, product)
FinalName(site, demtype, suffix, product) ==
    SiteBname(site) \o <<demtype, suffix, ".", product, ".", "tif">>

\* glob.glob(f[:-3] + '*'): the files whose name starts with f less its
\* last three characters, the extension 'tif'
Glob(f, d) == {g \in d : IsPrefix(SubSeq(f, 1, Len(f) - 1), g)}

\* a create_dem that looks for the exact .tif names only
RunNeededExactTif(fouts, d) == \E o \in DOMAIN fouts : fouts[o] \notin d

\* create_dem: run if any product is missing under every extension
RunNeeded(fouts, d) == \E o \in DOMAIN fouts : Glob(fouts[o], d) = {}

\* a create_dem that is content with one of the expected outputs
OutputsExistAny(fouts, d) == \E o \in DOMAIN fouts : fouts[o] \in d

\* create_dem: every expected output exists, under its exact name
OutputsExist(fouts, d) == \A o \in DOMAIN fouts : fouts[o] \in d

\* create_dem: the pipeline, built writer first
DemPipeline(r, rad) ==
    LET bname == DemBname(r.site, r.demtype, rad, r.suffix)
        j0 == _json_gdal_base(bname, r.products, rad, r.resolution)
        j1 == IF r.decimation # None
              THEN _json_add_decimation_filter(j0, r.decimation) ELSE j0
        j2 == _json_add_filters(j1, r.maxsd, r.maxz, r.maxangle, r.returnnum)
        j3 == IF r.demtype = "dsm"
              THEN _json_add_classification_filter(j2, "2", "max")
              ELSE IF r.demtype = "dtm"
                   THEN _json_add_classification_filter(j2, "2", "equals")
                   ELSE j2
    IN  _json_add_readers(j3, r.filenames)

\* shapely: loads(site.WKT()).buffer(buff).wkt
Buffer(wkt, buff) == <<"buffer", wkt, buff>>

\* merge_files: the pipeline that writes the merged las file fout
MergePipeline(r, fout) ==
    LET j0 == _json_las_base(fout)
        j1 == IF r.decimation # None
              THEN _json_add_decimation_filter(j0, r.decimation) ELSE j0
        j2 == IF r.site # None
              THEN _json_add_crop_filter(j1, Buffer(WKT(r.site), r.buff)) ELSE j1
    IN  _json_add_readers(j2, r.filenames)

\* --------------------------------------------------------------- requests
RadiusSeq == <<"0.56", "1.41", "2.5">>
Reverse(s) == [k \in 1..Len(s) |-> s[Len(s) + 1 - k]]

\* the radius lists of the model: ascending or descending radii
RadiusLists ==
    {SubSeq(RadiusSeq, 1, n) : n \in 1..MaxRadii}
    \cup {Reverse(SubSeq(RadiusSeq, 1, n)) : n \in 1..MaxRadii}

NoFilters == [decimation |-> None, maxsd |-> None, maxz |-> None,
              maxangle |-> None, returnnum |-> None]

FilterChoices == [decimation : {None, "10"}, maxsd : {None, "2.5"},
                  maxz : {None, "400"}, maxangle : {None, "15"},
                  returnnum : {None, "1"}]

\* times: how often the caller makes the call, with the same arguments
Request(op, times, n, demtype, radius, site, suffix, gapfill, overwrite, products, f) ==
    [op |-> op, times |-> times, filenames |-> Filenames(n), demtype |-> demtype,
     radius |-> radius, site |-> site, suffix |-> suffix,
     gapfill |-> gapfill, overwrite |-> overwrite, products |-> products,
     decimation |-> f.decimation, maxsd |-> f.maxsd, maxz |-> f.maxz,
     maxangle |-> f.maxangle, returnnum |-> f.returnnum,
     resolution |-> "0.1", buff |-> "20", fout |-> <<"classified", ".", "las">>]

\* create_dems requests that exercise the orchestration: radius lists,
\* product lists, gapfill and overwrite
OrchRequests ==
    {Request("create_dems", 1, 2, "dtm", radius, None, "", gapfill, overwrite, products, NoFilters) :
        radius \in RadiusLists, gapfill \in BOOLEAN, overwrite \in BOOLEAN,
        products \in ProductLists}

\* create_dems requests for one radius, made again with the same arguments
RepeatRequests ==
    {Request("create_dems", times, 2, "dtm", <<"0.56">>, None, "", FALSE, overwrite, products, NoFilters) :
        times \in 2..MaxCalls, overwrite \in BOOLEAN, products \in ProductLists}

\* create_dems requests that exercise the pipeline builder and the naming
BuildRequests ==
    {Request("create_dems", 1, n, demtype, <<"0.56">>, site, suffix, gapfill, FALSE, <<"max">>, f) :
        n \in 1..MaxFiles, demtype \in DemTypes, site \in Sites,
        suffix \in Suffixes, gapfill \in BOOLEAN, f \in FilterChoices}

ClassifyRequests ==
    {Request("classify", times, n, "dtm", <<"0.56">>, site, "", FALSE, FALSE, <<"max">>,
             [NoFilters EXCEPT !.decimation = dec]) :
        times \in 1..MaxCalls, n \in 1..MaxFiles, site \in Sites, dec \in {None, "10"}}

\* the files of a request that an earlier run may have left on disk
Candidates(r) ==
    IF r.op = "classify" THEN {r.fout}
    ELSE {DemFouts(DemBname(r.site, r.demtype, rad, r.suffix), r.products, e)[o] :
             rad \in Range(r.radius), o \in Range(r.products), e \in Exts}
         \cup {FinalName(r.site, r.demtype, r.suffix, o) :
                  o \in Range(r.products) \ {"den"}}

StaleDisks(r) ==
    IF r \in BuildRequests THEN {{}}
    ELSE {d \in SUBSET Candidates(r) : Cardinality(d) <= MaxStale}

\* ------------------------------------------------------------------ state
VARIABLES
    req,        \* the arguments of the top-level call
    disk,       \* the files that exist
    pc,         \* the statement the program is at
    calls,      \* top-level calls started
    results,    \* the outcome of each finished top-level call
    log,        \* the calls made so far: create_dem, run_pipeline, gap_fill, run_pdalground
    i,          \* create_dems: index of the radius being processed
    fouts,      \* create_dems: the list of per-radius product mappings
    cd,         \* create_dem: its locals rad, fouts, run
    json,       \* run_pipeline: the pipeline being executed
    jsonfile,   \* run_pipeline: the temporary pipeline description file
    out,        \* run_pipeline, run_pdalground: the exit status of the last
                \* os.system of the call, which no statement reads; -1 if none
    ftmp,       \* classify: the intermediate merged file
    exc,        \* classify: the exception pending in the finally block
    todo,       \* create_dems: products still to be handled by the gap-fill loop
    final       \* create_dems: the mapping _fouts being built

vars == <<req, disk, pc, calls, results, log, i, fouts, cd, json, jsonfile,
          out, ftmp, exc, todo, final>>

NoFile == <<>>
NoCd == [rad |-> None, fouts |-> <<>>, run |-> FALSE]
EmptyMap == <<>>

Locals0 ==
    /\ i = 0 /\ fouts = <<>> /\ cd = NoCd /\ json = <<>> /\ jsonfile = NoFile
    /\ out = -1 /\ ftmp = NoFile /\ exc = None /\ todo = {} /\ final = EmptyMap

InitWith(requests) ==
    /\ req \in requests
    /\ disk \in StaleDisks(req)
    /\ pc = "idle" /\ calls = 0 /\ results = <<>> /\ log = <<>>
    /\ Locals0

Init ==
    InitWith(OrchRequests \cup RepeatRequests \cup BuildRequests \cup ClassifyRequests)

\* ---------------------------------------------------------------- helpers
Count(fn) == Cardinality({k \in DOMAIN log : log[k].fn = fn})

\* tempfile.mkstemp(suffix='.json'): a name no earlier call was given
MkstempName == <<"tmp", ToStr(Count("run_pipeline") + 1), ".json">>

\* str(uuid.uuid4()) + '.las', alongside the first input file
UuidName == <<"uuid", ToStr(calls), ".las">>

ExitCodes == {0, 256}

\* the files a pipeline names in its writer stages
WriterFiles(j) ==
    {j[k].filename : k \in {n \in DOMAIN j : j[n].type \in {"writers.gdal", "writers.las"}}}

Ok(value) == [ok |-> TRUE, error |-> <<>>, value |-> value]
Error(msg) == [ok |-> FALSE, error |-> msg, value |-> <<>>]

\* the top-level call ends: its locals are gone; out stays, as the record of
\* the exit status the call ended with
Finish(res) ==
    /\ pc' = "done"
    /\ results' = Append(results, res)
    /\ i' = 0 /\ fouts' = <<>> /\ cd' = NoCd /\ json' = <<>> /\ jsonfile' = NoFile
    /\ out' = out /\ ftmp' = NoFile /\ exc' = None /\ todo' = {} /\ final' = EmptyMap

\* an exception leaves run_pipeline: create_dem and create_dems let it
\* through, merge_files replaces it (lines 271-274), classify lets that through
RaiseInRunPipeline(e) ==
    Finish(Error(IF req.op = "classify" THEN <<"Error merging LAS files">> ELSE e))

\* ------------------------------------------------------------ top level
\* the caller calls create_dems or classify with the arguments req
Call ==
    /\ pc \in {"idle", "done"}
    /\ calls < req.times
    /\ calls' = calls + 1
    /\ log' = Append(log, [fn |-> req.op])
    /\ IF req.op = "create_dems"
       THEN pc' = "create_dem" /\ i' = 1
       ELSE pc' = "classify" /\ i' = 0
    /\ out' = -1
    /\ UNCHANGED <<req, disk, results, fouts, cd, json, jsonfile, ftmp, exc,
                   todo, final>>

\* ------------------------------------------------------------ create_dem
\* lines 344-377: names, the glob check, the pipeline
CreateDem ==
    /\ pc = "create_dem"
    /\ LET rad == req.radius[i]
           bname == DemBname(req.site, req.demtype, rad, req.suffix)
           fo == DemFouts(bname, req.products, "tif")
           run == RunNeeded(fo, disk)
       IN  /\ cd' = [rad |-> rad, fouts |-> fo, run |-> run]
           /\ log' = Append(log, [fn |-> "create_dem", radius |-> rad, disk |-> disk])
           /\ IF run \/ req.overwrite
              THEN json' = DemPipeline(req, rad) /\ pc' = "run_pipeline"
              ELSE json' = json /\ pc' = "cd_return"
    /\ UNCHANGED <<req, disk, calls, results, i, fouts, jsonfile, out, ftmp, exc,
                   todo, final>>

\* a create_dem that deletes the outputs of the failed radius before raising
CreateDemVerifyRollback ==
    /\ pc = "cd_verify"
    /\ IF OutputsExist(cd.fouts, disk)
       THEN /\ pc' = "cd_return"
            /\ UNCHANGED <<disk, results, log, i, fouts, cd, json, jsonfile, out, ftmp,
                           exc, todo, final>>
       ELSE /\ Finish(Error(<<"Error creating dems">>))
            /\ disk' = disk \ {cd.fouts[o] : o \in DOMAIN cd.fouts}
            /\ log' = Append(log, [fn |-> "raise", disk |-> disk])
    /\ UNCHANGED <<req, calls>>

\* lines 380-386: every expected output must exist
CreateDemVerify ==
    /\ pc = "cd_verify"
    /\ IF OutputsExist(cd.fouts, disk)
       THEN /\ pc' = "cd_return"
            /\ UNCHANGED <<results, log, i, fouts, cd, json, jsonfile, out, ftmp, exc,
                           todo, final>>
       ELSE /\ Finish(Error(<<"Error creating dems">>))
            /\ log' = Append(log, [fn |-> "raise", disk |-> disk])
    /\ UNCHANGED <<req, disk, calls>>

\* lines 388-389 and the loop of create_dems, lines 308-311
CreateDemReturn ==
    /\ pc = "cd_return"
    /\ fouts' = Append(fouts, cd.fouts)
    /\ log' = Append(log, [fn |-> "return", value |-> cd.fouts, disk |-> disk])
    /\ cd' = NoCd
    /\ out' = -1
    /\ i' = i + 1
    /\ pc' = IF i < Len(req.radius) THEN "create_dem" ELSE "cds_collect"
    /\ UNCHANGED <<req, disk, calls, results, json, jsonfile, ftmp, exc,
                   todo, final>>

\* ---------------------------------------------------------- run_pipeline
\* line 209: the temporary description file is created
RunPipelineMkstemp ==
    /\ pc = "run_pipeline"
    /\ log' = Append(log, [fn |-> "run_pipeline", json |-> json])
    /\ jsonfile' = MkstempName
    /\ disk' = disk \cup {jsonfile'}
    /\ pc' = "rp_write"
    /\ UNCHANGED <<req, calls, results, i, fouts, cd, json, out, ftmp, exc, todo, final>>

\* lines 212-213: os.write and os.close; os.write may raise (disk full)
RunPipelineWrite ==
    /\ pc = "rp_write"
    /\ \/ /\ pc' = "rp_system"
          /\ UNCHANGED <<results, i, fouts, cd, json, jsonfile, out, ftmp, exc,
                         todo, final>>
       \/ RaiseInRunPipeline(<<"OSError">>)
    /\ UNCHANGED <<req, disk, calls, log>>

\* lines 215-223: the engine runs the pipeline as a subprocess.  It writes
\* the file its writer stage names or nothing, and exits with any status;
\* or the wait ends in an interruption.
RunPipelineSystem ==
    /\ pc = "rp_system"
    /\ \E written \in {{}, WriterFiles(json)} :
          /\ disk' = disk \cup written
          /\ log' = Append(log, [fn |-> "engine", json |-> json, written |-> written])
          /\ \/ \E status \in ExitCodes :
                   /\ out' = status
                   /\ pc' = "rp_remove"
                   /\ UNCHANGED <<results, i, fouts, cd, json, jsonfile, ftmp, exc,
                                  todo, final>>
             \/ RaiseInRunPipeline(<<"KeyboardInterrupt">>)
    /\ UNCHANGED <<req, calls>>

\* a run_pipeline that raises when the engine exits with a non-zero status
RunPipelineRemoveChecked ==
    /\ pc = "rp_remove"
    /\ disk' = disk \ {jsonfile}
    /\ IF out = 0
       THEN /\ jsonfile' = NoFile /\ json' = <<>>
            /\ pc' = IF req.op = "classify" THEN "run_pdalground" ELSE "cd_verify"
            /\ UNCHANGED <<results, i, fouts, cd, out, ftmp, exc, todo, final>>
       ELSE RaiseInRunPipeline(<<"Error running pipeline">>)
    /\ UNCHANGED <<req, calls, log>>

\* line 224: the description file is removed and run_pipeline returns,
\* whatever the exit status, to create_dem (line 380) or to merge_files
\* (lines 275-276), which returns fout to classify (line 287)
RunPipelineRemove ==
    /\ pc = "rp_remove"
    /\ disk' = disk \ {jsonfile}
    /\ jsonfile' = NoFile /\ json' = <<>>
    /\ pc' = IF req.op = "classify" THEN "run_pdalground" ELSE "cd_verify"
    /\ UNCHANGED <<req, calls, results, log, i, fouts, cd, out, ftmp, exc, todo, final>>

\* ----------------------------------------------------------- create_dems
\* lines 312-316: from a list of mappings to a mapping of lists
Transpose(fs) == [product \in DOMAIN fs[1] |-> [k \in 1..Len(fs) |-> fs[k][product]]]

\* a create_dems that gap-fills the density product like any other
KeepsNoProduct(product) == FALSE

\* line 323: the density product is not gap-filled
KeepsFirstRadius(product) == product = "den"

\* a create_dems that keeps an existing final raster even with overwrite
GapFillNeededIfAbsent(fout, d, overwrite) == fout \notin d

\* line 329
GapFillNeeded(fout, d, overwrite) == fout \notin d \/ overwrite

\* utils.gap_fill(filenames, fout, site): writes the final raster fout
gap_fill(filenames, fout, d) == d \cup {fout}

\* lines 312-319 and, without gapfill, lines 332-337
CreateDemsCollect ==
    /\ pc = "cds_collect"
    /\ LET fnames == Transpose(fouts)
       IN  IF req.gapfill
           THEN /\ fouts' = fnames
                /\ todo' = DOMAIN fnames
                /\ final' = EmptyMap
                /\ pc' = "cds_gapfill"
                /\ UNCHANGED <<results, i, cd, json, jsonfile, out, ftmp, exc>>
           ELSE Finish(Ok([product \in DOMAIN fnames |-> fnames[product][1]]))
    /\ UNCHANGED <<req, disk, calls, log>>

\* lines 321-331: one iteration of the gap-fill loop, the dictionary's keys
\* in any order
CreateDemsGapfill ==
    /\ pc = "cds_gapfill"
    /\ \E product \in todo :
          /\ todo' = todo \ {product}
          /\ IF KeepsFirstRadius(product)
             THEN /\ final' = final @@ (product :> fouts[product][1])
                  /\ UNCHANGED <<disk, log>>
             ELSE LET fout == FinalName(req.site, req.demtype, req.suffix, product)
                  IN  /\ final' = final @@ (product :> fout)
                      /\ IF GapFillNeeded(fout, disk, req.overwrite)
                         THEN /\ disk' = gap_fill(fouts[product], fout, disk)
                              /\ log' = Append(log, [fn |-> "gap_fill",
                                                     filenames |-> fouts[product],
                                                     fout |-> fout])
                         ELSE UNCHANGED <<disk, log>>
    /\ UNCHANGED <<req, pc, calls, results, i, fouts, cd, json, jsonfile, out, ftmp, exc>>

\* line 337
CreateDemsReturn ==
    /\ pc = "cds_gapfill"
    /\ todo = {}
    /\ Finish(Ok(final))
    /\ UNCHANGED <<req, disk, calls, log>>

\* -------------------------------------------------------------- classify
\* classify lines 282-287 and merge_files lines 258-270: the merge pipeline
ClassifyMerge ==
    /\ pc = "classify"
    /\ ftmp' = UuidName
    /\ json' = MergePipeline(req, UuidName)
    /\ pc' = "run_pipeline"
    /\ UNCHANGED <<req, disk, calls, results, log, i, fouts, cd, jsonfile, out, exc,
                   todo, final>>

\* a classify that trusts the subprocess and does not look for fout
ClassifiedNotChecked(fout, d) == TRUE

\* line 292
ClassifiedExists(fout, d) == fout \in d

\* lines 289-295: 'pdal ground' runs as a subprocess.  It writes fout, which
\* takes the merged file as input, or nothing, and exits with any status; or
\* the wait ends in an interruption, which the bare except replaces.
RunPdalground ==
    /\ pc = "run_pdalground"
    /\ log' = Append(log, [fn |-> "run_pdalground", fin |-> ftmp, fout |-> req.fout,
                            disk |-> disk])
    /\ \E written \in {{}} \cup (IF ftmp \in disk THEN {{req.fout}} ELSE {}) :
          /\ disk' = disk \cup written
          /\ \/ \E status \in ExitCodes :
                   /\ out' = status
                   /\ exc' = IF ClassifiedExists(req.fout, disk')
                             THEN None ELSE "Error creating classified file"
             \/ /\ out' = -1
                /\ exc' = "Error creating classified file"
    /\ pc' = "cl_finally"
    /\ UNCHANGED <<req, calls, results, i, fouts, cd, json, jsonfile, ftmp, todo, final>>

\* lines 296-301: os.remove(ftmp), which raises if ftmp does not exist, then
\* the pending exception or the return
ClassifyFinally ==
    /\ pc = "cl_finally"
    /\ IF ftmp \in disk
       THEN /\ disk' = disk \ {ftmp}
            /\ IF exc = None
               THEN Finish(Ok(req.fout))
               ELSE Finish(Error(<<exc, req.fout>>))
       ELSE /\ disk' = disk
            /\ Finish(Error(<<"OSError">>))
    /\ UNCHANGED <<req, calls, log>>

\* ------------------------------------------------------------------ system
Next ==
    \/ Call
    \/ CreateDem
    \/ CreateDemVerify
    \/ CreateDemReturn
    \/ RunPipelineMkstemp
    \/ RunPipelineWrite
    \/ RunPipelineSystem
    \/ RunPipelineRemove
    \/ CreateDemsCollect
    \/ CreateDemsGapfill
    \/ CreateDemsReturn
    \/ ClassifyMerge
    \/ RunPdalground
    \/ ClassifyFinally

Spec == Init /\ [][Next]_vars

\* ----------------------------------------------------- reading the log
\* the create_dem calls made so far
CdEvents == {k \in DOMAIN log : log[k].fn = "create_dem"}

\* the events of the create_dem call logged at k end before SegEnd(k)
SegEnd(k) ==
    LET later == {j \in (k + 1)..Len(log) : log[j].fn \in {"create_dem", "create_dems", "classify"}}
    IN  IF later = {} THEN Len(log) + 1
        ELSE CHOOSE j \in later : \A m \in later : j <= m

Seg(k) == (k + 1)..(SegEnd(k) - 1)

\* run_pipeline calls made by the create_dem call logged at k
RunsIn(k) == Cardinality({j \in Seg(k) : log[j].fn = "run_pipeline"})

\* the create_dem call logged at k has returned normally
Returned(k) == \E j \in Seg(k) : log[j].fn = "return"

ReturnValue(k) == log[CHOOSE j \in Seg(k) : log[j].fn = "return"].value

\* the create_dem call logged at k has returned or raised
Finished(k) == Returned(k) \/ SegEnd(k) <= Len(log) \/ pc = "done"

\* the output paths create_dem is expected to compute for the radius rad
ExpectedPaths(rad, ext) ==
    DemFouts(DemBname(req.site, req.demtype, rad, req.suffix), req.products, ext)

\* every requested product has a file under some extension in the disk d
AllUnderSomeExt(rad, d) ==
    \A o \in Range(req.products) : \E e \in Exts : ExpectedPaths(rad, e)[o] \in d

\* ------------------------------------------------------------------ C1
\* C1: a create_dem call that finds, with overwrite false, a file under some
\* extension for every requested product does not call run_pipeline and
\* returns the expected output paths; any other create_dem call calls
\* run_pipeline exactly once.
C1_IdempotencyRule ==
    \A k \in CdEvents :
        Finished(k) =>
            IF ~req.overwrite /\ AllUnderSomeExt(log[k].radius, log[k].disk)
            THEN /\ RunsIn(k) = 0
                 /\ Returned(k)
                 /\ ReturnValue(k) = ExpectedPaths(log[k].radius, "tif")
            ELSE RunsIn(k) = 1

\* a create_dem call of a request for two products has skipped the engine
\* although a product had no .tif file, only another extension
C1_Witness ==
    \E k \in CdEvents :
        /\ Finished(k) /\ RunsIn(k) = 0 /\ Returned(k)
        /\ Len(req.products) = 2
        /\ \E o \in Range(req.products) : ExpectedPaths(log[k].radius, "tif")[o] \notin log[k].disk

\* ------------------------------------------------------------------ C2
\* the top-level call that the event logged at k belongs to
CallOf(k) == Cardinality({j \in 1..k : log[j].fn \in {"create_dems", "classify"}})

ReturnDisk(k) == log[CHOOSE j \in Seg(k) : log[j].fn = "return"].disk

AllTifIn(rad, d) == \A o \in Range(req.products) : ExpectedPaths(rad, "tif")[o] \in d

\* C2: a create_dem call that has invoked the engine returns normally only
\* with every expected .tif path on disk; it raises its verification error
\* only with one of them absent; and when it does not return, the call as a
\* whole has failed and has returned no product mapping, not even a partial one.
C2_PostExecutionVerification ==
    \A k \in CdEvents :
        (RunsIn(k) = 1 /\ Finished(k)) =>
            /\ Returned(k) => AllTifIn(log[k].radius, ReturnDisk(k))
            /\ \A j \in Seg(k) : log[j].fn = "raise" => ~AllTifIn(log[k].radius, log[j].disk)
            /\ ~Returned(k) =>
                  /\ Len(results) >= CallOf(k)
                  /\ ~results[CallOf(k)].ok
                  /\ results[CallOf(k)].value = <<>>

\* a create_dem call has invoked the engine and has failed its verification
\* with one expected output on disk and another one absent
C2_Witness ==
    \E k \in CdEvents :
        /\ RunsIn(k) = 1 /\ Finished(k) /\ ~Returned(k)
        /\ \E j \in Seg(k) :
              /\ log[j].fn = "raise"
              /\ \E o1, o2 \in Range(req.products) :
                    /\ ExpectedPaths(log[k].radius, "tif")[o1] \in log[j].disk
                    /\ ExpectedPaths(log[k].radius, "tif")[o2] \notin log[j].disk

\* ------------------------------------------------------------------ C3
\* the disk before the first call
FirstDisk == log[CHOOSE k \in CdEvents : \A m \in CdEvents : k <= m].disk

\* every run of the engine so far has written the file of its writer stage
EngineFaithful ==
    \A j \in DOMAIN log : log[j].fn = "engine" => log[j].written = WriterFiles(log[j].json)

\* no call so far was interrupted or failed to write its pipeline file
NoFaults ==
    \A c \in DOMAIN results :
        results[c].error \notin {<<"KeyboardInterrupt">>, <<"OSError">>,
                                 <<"Error merging LAS files">>}

\* two create_dem calls with the same arguments and overwrite false have
\* finished, from a disk without outputs and with a faithful engine
TwoCallsDone ==
    /\ req \in RepeatRequests /\ ~req.overwrite
    /\ Len(results) = 2 /\ pc = "done"
    /\ FirstDisk = {}
    /\ EngineFaithful /\ NoFaults

\* C3: calling create_dem twice with the same arguments and overwrite false,
\* from a disk without outputs and with an engine that writes the file of
\* the writer stage, gives the same output paths both times and invokes the
\* engine once in all.
C3_TwoCallsIdempotent ==
    TwoCallsDone =>
        /\ results[1].ok /\ results[2].ok
        /\ results[1].value = results[2].value
        /\ Count("run_pipeline") = 1

\* ------------------------------------------------------------------ C4
\* the intermediate merged files on disk: only merge_files names a file so
MergedFilesOnDisk == {f \in disk : f[1] = "uuid"}

\* C4: once classify has returned or raised, however it ended, the
\* intermediate merged file of its merge phase is not on disk.
C4_ScopedCleanup ==
    (req.op = "classify" /\ pc = "done") => MergedFilesOnDisk = {}

\* ------------------------------------------------------------------ C5
\* the temporary pipeline description files on disk
PipelineFilesOnDisk == {f \in disk : f[1] = "tmp"}

\* C5: outside run_pipeline, that is once it has returned or raised,
\* no temporary pipeline description file is on disk.
C5_ExecutorCleanup ==
    pc \notin {"rp_write", "rp_system", "rp_remove"} => PipelineFilesOnDisk = {}

\* ------------------------------------------------- reading a pipeline
\* the pipelines handed to run_pipeline so far
Pipelines == {log[k].json : k \in {n \in DOMAIN log : log[n].fn = "run_pipeline"}}

\* what a stage is, from its type and, for a range filter, its field
Kind(stage) ==
    CASE stage.type = "readers.las" -> "reader"
      [] stage.type = "filters.merge" -> "merge"
      [] stage.type = "filters.crop" -> "crop"
      [] stage.type = "filters.decimation" -> "decimation"
      [] stage.type = "filters.outlier" -> "outlier"
      [] stage.type \in {"writers.gdal", "writers.las"} -> "writer"
      [] stage.type = "filters.range" ->
            CASE stage.limits[1] = "Classification" -> "classification"
              [] stage.limits[1] = "ReturnNum" -> "returnnum"
              [] stage.limits[1] = "ScanAngleRank" -> "scanangle"
              [] stage.limits[1] = "Z" -> "elevation"

Positions(j, kinds) == {n \in DOMAIN j : Kind(j[n]) \in kinds}

FilterKinds == {"crop", "decimation", "outlier", "classification", "returnnum",
                "scanangle", "elevation"}

\* ------------------------------------------------------------------ C6
\* C6: a pipeline built from N > 1 input files has exactly N readers, in
\* its first N positions, and exactly one merge stage, right after the last
\* reader and before every filter; a pipeline built from one file has no
\* merge stage.
C6_MergePlacement ==
    \A j \in Pipelines :
        LET N == Len(req.filenames)
        IN  /\ Positions(j, {"reader"}) = 1..N
            /\ IF N > 1
               THEN /\ Positions(j, {"merge"}) = {N + 1}
                    /\ \A n \in Positions(j, FilterKinds) : n > N + 1
               ELSE Positions(j, {"merge"}) = {}

\* ------------------------------------------------------------------ C7
\* the place of a filter or writer stage in the execution order of the
\* DEM pipeline
ExecutionOrder ==
    <<"classification", "returnnum", "scanangle", "elevation", "outlier",
      "decimation", "writer">>

Rank(kind) == CHOOSE n \in DOMAIN ExecutionOrder : ExecutionOrder[n] = kind

\* C7: in every pipeline built by create_dem the classification,
\* return-number, scan-angle, elevation, outlier and decimation filters and
\* the writer that are present appear in this order, and the pipeline has
\* exactly one writer stage, its last element.
C7_StageOrder ==
    req.op = "create_dems" =>
        \A j \in Pipelines :
            /\ \A a, b \in Positions(j, Range(ExecutionOrder)) :
                  a < b => Rank(Kind(j[a])) < Rank(Kind(j[b]))
            /\ Positions(j, {"writer"}) = {Len(j)}

\* create_dem has built a pipeline with the classification filter, all five
\* optional filters and the writer
C7_Witness ==
    /\ req.op = "create_dems"
    /\ \E j \in Pipelines :
          {Kind(j[n]) : n \in DOMAIN j} \cap Range(ExecutionOrder) = Range(ExecutionOrder)

\* ------------------------------------------------------------------ C8
GapFillEvents == {k \in DOMAIN log : log[k].fn = "gap_fill"}

\* the per-radius output paths of a product, in the order of the radius list
PerRadiusPaths(product) ==
    [k \in 1..Len(req.radius) |-> ExpectedPaths(req.radius[k], "tif")[product]]

FinalPath(product) == FinalName(req.site, req.demtype, req.suffix, product)

\* a create_dems call with gapfill, without overwrite and without final
\* rasters on disk
GapFillRequest ==
    /\ req.op = "create_dems" /\ req.times = 1
    /\ req.gapfill /\ ~req.overwrite
    /\ CdEvents # {}
    /\ \A o \in Range(req.products) : FinalPath(o) \notin FirstDisk

\* C8: in a create_dems call with gapfill, without overwrite and with no
\* final raster on disk, the create_dem calls are made in the order of the
\* radius list and before any gap_fill call; and once create_dem has
\* returned for every radius and the call has ended, create_dems has
\* returned, gap_fill was called exactly once for every product but 'den',
\* with that product's per-radius paths in the order of the radius list, and
\* never for 'den', and the result maps 'den' to the output of the first
\* radius and every other product to its final path.
C8_GapFillComposition ==
    GapFillRequest =>
        /\ \A c \in CdEvents :
              /\ Cardinality({m \in CdEvents : m <= c}) <= Len(req.radius)
              /\ log[c].radius = req.radius[Cardinality({m \in CdEvents : m <= c})]
              /\ \A g \in GapFillEvents : c < g
        /\ GapFillEvents # {} => Cardinality(CdEvents) = Len(req.radius)
        /\ (pc = "done" /\ Count("return") = Len(req.radius)) =>
              /\ results[1].ok
              /\ \A o \in Range(req.products) :
                    LET calls_o == {g \in GapFillEvents : log[g].fout = FinalPath(o)}
                    IN  IF o = "den"
                        THEN /\ calls_o = {}
                             /\ results[1].value[o] = ExpectedPaths(req.radius[1], "tif")[o]
                        ELSE /\ Cardinality(calls_o) = 1
                             /\ \A g \in calls_o : log[g].filenames = PerRadiusPaths(o)
                             /\ results[1].value[o] = FinalPath(o)
              /\ Cardinality(GapFillEvents) = Cardinality(Range(req.products) \ {"den"})
              /\ DOMAIN results[1].value = Range(req.products)

\* create_dems has returned for two radii and the products 'den' and 'max':
\* one gap_fill call, for 'max'
C8_Witness ==
    /\ GapFillRequest /\ pc = "done"
    /\ Len(req.radius) = 2 /\ req.products = <<"den", "max">>
    /\ results[1].ok
    /\ Cardinality(GapFillEvents) = 1

\* ------------------------------------------------------------------ C9
\* the request of the end-to-end scenario has ended, from a disk without
\* outputs and with an engine that writes the file of the writer stage
EndToEndDone ==
    /\ req.op = "create_dems" /\ req.times = 1
    /\ req.filenames = <<"a.las", "b.las">> /\ req.demtype = "dtm"
    /\ req.radius = <<"0.56">> /\ req.products = <<"den", "max">>
    /\ req.site = None /\ ~req.gapfill /\ ~req.overwrite
    /\ pc = "done"
    /\ FirstDisk = {}
    /\ EngineFaithful /\ NoFaults

\* C9: the end-to-end request returns two output paths, for 'den' and for
\* 'max' at radius 0.56, and its pipeline has 2 readers, 1 merge stage,
\* 1 classification filter for classification 2 and 1 writer.
C9_EndToEnd ==
    EndToEndDone =>
        /\ results[1].ok
        /\ results[1].value = ExpectedPaths("0.56", "tif")
        /\ DOMAIN results[1].value = {"den", "max"}
        /\ Cardinality(Pipelines) = 1
        /\ \A j \in Pipelines :
              /\ Cardinality(Positions(j, {"reader"})) = 2
              /\ Cardinality(Positions(j, {"merge"})) = 1
              /\ Cardinality(Positions(j, {"writer"})) = 1
              /\ \E n \in DOMAIN j :
                    /\ Positions(j, {"classification"}) = {n}
                    /\ j[n].limits = <<"Classification", "2", "2">>

\* ----------------------------------------------------------------- C10
\* C10: classify returns normally only with outputFile on disk, and returns
\* outputFile; with outputFile absent after the ground subprocess, whatever
\* its exit status, an error is pending and classify fails.
C10_ClassifyPostcondition ==
    req.op = "classify" =>
        /\ (pc = "cl_finally" /\ req.fout \notin disk) => exc # None
        /\ (pc = "done" /\ results[Len(results)].ok) =>
              /\ req.fout \in disk
              /\ results[Len(results)].value = req.fout
        /\ (pc = "done" /\ req.fout \notin disk) => ~results[Len(results)].ok

\* the ground subprocess has exited with status 0 on an existing merged
\* file, outputFile is absent and classify is about to fail
C10_Witness ==
    /\ req.op = "classify" /\ pc = "cl_finally"
    /\ out = 0 /\ ftmp \in disk
    /\ req.fout \notin disk /\ exc # None

\* ----------------------------------------------------------------- C11
GroundEvents == {k \in DOMAIN log : log[k].fn = "run_pdalground"}

\* C11: classify never invokes run_pdalground on an intermediate merged file
\* that is not on disk: a merge phase that ends without its file makes
\* classify fail before the classify phase.
C11_MergeVerification ==
    \A k \in GroundEvents : log[k].fin \in log[k].disk

\* ----------------------------------------------------------------- C12
\* the geometry the crop filter is to carry: the site's, buffered by 20
ClaimedCrop == <<"buffer", <<"POLYGON", req.site>>, "20">>

\* C12: with a site, every pipeline of merge_files and of create_dem has
\* exactly one crop filter, with the site's geometry buffered by 20, after
\* every reader and before every other filter; without a site, no pipeline
\* has a crop filter.
C12_CropFilter ==
    \A j \in Pipelines :
        IF req.site = None
        THEN Positions(j, {"crop"}) = {}
        ELSE \E n \in DOMAIN j :
                /\ Positions(j, {"crop"}) = {n}
                /\ j[n].polygon = ClaimedCrop
                /\ \A m \in Positions(j, {"reader"}) : m < n
                /\ \A m \in Positions(j, FilterKinds \ {"crop"}) : n < m

\* C12 for the pipelines of merge_files alone
CropFilterInMerge == req.op = "classify" => C12_CropFilter

\* ----------------------------------------------------------------- C13
\* the request's parameter behind each optional filter
Supplied(kind) ==
    CASE kind = "returnnum" -> req.returnnum # None
      [] kind = "scanangle" -> req.maxangle # None
      [] kind = "elevation" -> req.maxz # None
      [] kind = "outlier" -> req.maxsd # None
      [] kind = "decimation" -> req.decimation # None

OptionalKinds == {"returnnum", "scanangle", "elevation", "outlier", "decimation"}

NoneSupplied == \A kind \in OptionalKinds : ~Supplied(kind)

KindsOf(j) == {Kind(j[n]) : n \in DOMAIN j}

\* each optional filter is in the pipeline j once if its parameter is
\* supplied and not at all otherwise
OptionalPresence(j) ==
    \A kind \in OptionalKinds :
        Cardinality(Positions(j, {kind})) = IF Supplied(kind) THEN 1 ELSE 0

BareKinds == {"reader", "writer"} \cup (IF Len(req.filenames) > 1 THEN {"merge"} ELSE {})

\* a pipeline of create_dem with no optional threshold supplied consists of
\* readers and the writer only, with the merge stage for several files,
\* whatever the DEM type; and each optional filter is there once if and only
\* if its parameter is supplied
C13_AsClaimed ==
    req.op = "create_dems" =>
        \A j \in Pipelines :
            /\ NoneSupplied => KindsOf(j) = BareKinds
            /\ OptionalPresence(j)

\* C13: a pipeline of create_dem with no optional threshold supplied
\* consists of the readers, the writer, the merge stage for several files
\* and, for the DEM types 'dtm' and 'dsm', the classification filter; and
\* each of the return-number, scan-angle, elevation, outlier and decimation
\* filters is there exactly once if its parameter is supplied and not at all
\* otherwise.
C13_FilterPresence ==
    req.op = "create_dems" =>
        \A j \in Pipelines :
            /\ NoneSupplied =>
                  KindsOf(j) = BareKinds \cup (IF req.demtype \in {"dtm", "dsm"}
                                               THEN {"classification"} ELSE {})
            /\ OptionalPresence(j)

\* create_dem has built a pipeline with the elevation filter and without
\* the scan-angle filter
C13_Witness ==
    /\ req.op = "create_dems"
    /\ req.maxz # None /\ req.maxangle = None
    /\ \E j \in Pipelines :
          /\ Cardinality(Positions(j, {"elevation"})) = 1
          /\ Positions(j, {"scanangle"}) = {}

\* ----------------------------------------------------------------- C14
ClassificationLimits(j) ==
    {j[n].limits : n \in Positions(j, {"classification"})}

\* C14: a pipeline of create_dem has, for 'dtm', exactly one classification
\* filter, with both bounds 2; for 'dsm', exactly one, with an open lower
\* bound and the upper bound 2; for any other DEM type, none.
C14_ClassificationByType ==
    req.op = "create_dems" =>
        \A j \in Pipelines :
            /\ Cardinality(Positions(j, {"classification"})) =
                  IF req.demtype \in {"dtm", "dsm"} THEN 1 ELSE 0
            /\ req.demtype = "dtm" =>
                  ClassificationLimits(j) = {<<"Classification", "2", "2">>}
            /\ req.demtype = "dsm" =>
                  ClassificationLimits(j) = {<<"Classification", "", "2">>}

\* create_dem has built a pipeline for 'dsm', with the classification
\* filter that has an open lower bound
C14_Witness ==
    /\ req.op = "create_dems" /\ req.demtype = "dsm"
    /\ \E j \in Pipelines : <<"Classification", "", "2">> \in ClassificationLimits(j)

\* ----------------------------------------------------------------- C15
\* the gap_fill calls that wrote the final raster of a product
GapFillsOf(product) == {g \in GapFillEvents : log[g].fout = FinalPath(product)}

EngineEvents == {k \in DOMAIN log : log[k].fn = "engine"}

\* a create_dems call with gapfill has returned
GapFillReturned ==
    /\ req.op = "create_dems" /\ req.times = 1 /\ req.gapfill
    /\ pc = "done" /\ results[1].ok

\* C15: when a create_dems call with gapfill has returned, for each product
\* other than 'den': gap_fill was called for its final path if and only if
\* that path did not exist or overwrite was set; no engine run wrote the
\* final path; and where gap_fill was skipped the final raster is on disk,
\* nothing has written it, and the result binds the product to it.
C15_GapFillSkip ==
    GapFillReturned =>
        \A o \in Range(req.products) \ {"den"} :
            /\ \A k \in EngineEvents : FinalPath(o) \notin log[k].written
            /\ GapFillsOf(o) # {} <=> (FinalPath(o) \notin FirstDisk \/ req.overwrite)
            /\ GapFillsOf(o) = {} =>
                  /\ FinalPath(o) \in FirstDisk
                  /\ FinalPath(o) \in disk
                  /\ results[1].value[o] = FinalPath(o)

\* create_dems with gapfill has returned for two products other than 'den',
\* with the final raster of one of them on disk beforehand: gap_fill was
\* skipped for that one and called for the other
C15_Witness ==
    /\ GapFillReturned /\ ~req.overwrite
    /\ \E o1, o2 \in Range(req.products) \ {"den"} :
          /\ FinalPath(o1) \in FirstDisk /\ GapFillsOf(o1) = {}
          /\ FinalPath(o2) \notin FirstDisk /\ GapFillsOf(o2) # {}

\* ----------------------------------------------------------------- C16
\* the number of create_dem calls made so far
CdCount == Cardinality(CdEvents)

\* a create_dems call has ended after one of its create_dem calls failed
CreateDemFailed ==
    /\ req.op = "create_dems" /\ req.times = 1
    /\ pc = "done"
    /\ \E c \in CdEvents : ~Returned(c)

\* C16: when create_dem has failed for the k-th radius, create_dems has
\* failed, create_dem was called for the first k radii only and returned
\* for the k - 1 before, gap_fill was not called, and every file an engine
\* run has written for these radii is still on disk.
C16_AbortWithoutRollback ==
    CreateDemFailed =>
        /\ ~results[1].ok /\ results[1].value = <<>>
        /\ CdCount <= Len(req.radius)
        /\ \A c \in CdEvents :
              /\ log[c].radius = req.radius[Cardinality({m \in CdEvents : m <= c})]
              /\ Returned(c) <=> c # CHOOSE m \in CdEvents : \A n \in CdEvents : n <= m
        /\ GapFillEvents = {}
        /\ \A k \in EngineEvents : log[k].written \subseteq disk

\* create_dems with gapfill and two radii has failed in its second
\* create_dem call, whose engine run wrote a file; the engine run of the
\* first call wrote one too
C16_Witness ==
    /\ CreateDemFailed /\ req.gapfill
    /\ Len(req.radius) = 2 /\ CdCount = 2
    /\ Cardinality({k \in EngineEvents : log[k].written # {}}) = 2

\* ----------------------------------------------------------------- C17
\* the file name that a sequence of pieces stands for
RECURSIVE Join(_)
Join(pieces) == IF pieces = <<>> THEN "" ELSE pieces[1] \o Join(Tail(pieces))

\* the site's part of a name
BasePart == IF req.site = None THEN "" ELSE req.site \o "_"

\* the pieces of a per-radius path less its '_r' + radius component
WithoutRadius(pieces, rad) ==
    LET Keep(x) == x \notin {"_r", rad}
    IN  SelectSeq(pieces, Keep)

\* the final path that create_dems has returned for a product is the
\* per-radius path that each create_dem call returned for it, less the
\* '_r' + radius component
FinalDropsRadius ==
    GapFillReturned =>
        \A o \in Range(req.products) \ {"den"} : \A c \in CdEvents :
            Join(results[1].value[o]) = Join(WithoutRadius(ReturnValue(c)[o], log[c].radius))

\* every per-radius path that create_dem returns is basename, demtype,
\* suffix, '_r' + radius, '.' + product, '.' + ext, in this order, and the
\* final path of create_dems is the per-radius name less '_r' + radius
C17_AsClaimed ==
    /\ \A c \in CdEvents : Returned(c) =>
          \A o \in Range(req.products) :
              Join(ReturnValue(c)[o]) =
                  BasePart \o req.demtype \o req.suffix \o "_r" \o log[c].radius
                      \o "." \o o \o "." \o "tif"
    /\ FinalDropsRadius

\* C17: every per-radius path that create_dem returns has its components in
\* the order basename, demtype, '_r' + radius, suffix, '.' + product,
\* '.' + ext; and the final path of create_dems is the per-radius name less
\* the '_r' + radius component.
C17_OutputNaming ==
    /\ \A c \in CdEvents : Returned(c) =>
          \A o \in Range(req.products) :
              Join(ReturnValue(c)[o]) =
                  BasePart \o req.demtype \o "_r" \o log[c].radius \o req.suffix
                      \o "." \o o \o "." \o "tif"
    /\ FinalDropsRadius

\* create_dems with gapfill, a site and a suffix has returned the final
\* path plot1_dtm_v2.max.tif, made from plot1_dtm_r0.56_v2.max.tif
C17_Witness ==
    /\ GapFillReturned /\ req.products = <<"max">>
    /\ Join(results[1].value["max"]) = "plot1_dtm_v2.max.tif"
    /\ \E c \in CdEvents :
          Returned(c) /\ Join(ReturnValue(c)["max"]) = "plot1_dtm_r0.56_v2.max.tif"

\* ----------------------------------------------------------------- C18
\* the last call of create_dem and of run_pdalground so far
LastCd == CHOOSE c \in CdEvents : \A m \in CdEvents : m <= c
LastGround == CHOOSE g \in GroundEvents : \A m \in GroundEvents : m <= g

\* the subprocess of the call in progress or just ended has exited, with
\* either status
SubprocessExited == out \in ExitCodes

\* C18: once the subprocess has exited, with whatever status, the outcome
\* is a function of the files on disk alone.  create_dem returns its
\* expected paths if every one of them is on disk and raises its
\* verification error otherwise; classify returns outputFile if it and the
\* merged file were on disk after the subprocess, and fails otherwise.
C18_ExitCodeIndependence ==
    SubprocessExited =>
        /\ (req.op = "create_dems" /\ pc = "cd_return") =>
              /\ AllTifIn(cd.rad, disk)
              /\ cd.fouts = ExpectedPaths(cd.rad, "tif")
        /\ (req.op = "create_dems" /\ pc = "done") =>
              /\ ~AllTifIn(log[LastCd].radius, disk)
              /\ results[Len(results)] = Error(<<"Error creating dems">>)
        /\ (req.op = "classify" /\ pc = "done") =>
              IF req.fout \in disk /\ log[LastGround].fin \in log[LastGround].disk
              THEN results[Len(results)] = Ok(req.fout)
              ELSE ~results[Len(results)].ok

\* with overwrite, the engine has written nothing and has exited with a
\* non-zero status, and create_dem returns normally on the outputs an
\* earlier run has left
C18_Witness ==
    /\ req.op = "create_dems" /\ req.overwrite
    /\ pc = "cd_return" /\ out = 256
    /\ \E k \in EngineEvents : k > LastCd /\ log[k].written = {}
    /\ AllTifIn(cd.rad, FirstDisk)

\* ----------------------------------------------------------------- C19
\* C19: when create_dem returns normally, whether it has skipped the engine
\* or run it, every path of the mapping it returns is a file on disk.
C19_ReturnedPathsExist ==
    \A c \in CdEvents : Returned(c) =>
        \A o \in Range(req.products) : ReturnValue(c)[o] \in ReturnDisk(c)

\* C19 for the create_dem calls that have run the engine
ReturnedPathsExistAfterRun ==
    \A c \in CdEvents : (Returned(c) /\ RunsIn(c) = 1) =>
        \A o \in Range(req.products) : ReturnValue(c)[o] \in ReturnDisk(c)

\* ----------------------------------------------------------------- C20
\* the last classify call has reached its classify phase and has ended
\* with outputFile absent
ClassifiedAbsent ==
    /\ req.op = "classify" /\ pc = "done"
    /\ \E g \in GroundEvents : CallOf(g) = Len(results)
    /\ req.fout \notin disk

\* C20: when classify ends with outputFile absent after its classify phase,
\* the intermediate merged file of the call is gone and the error that
\* reaches the caller is 'Error creating classified file <outputFile>'.
C20_FailureIdentity ==
    ClassifiedAbsent =>
        /\ log[LastGround].fin \notin disk
        /\ results[Len(results)] = Error(<<"Error creating classified file", req.fout>>)

\* C20 for the classify calls whose merge phase has left its file
FailureIdentityAfterMerge ==
    (ClassifiedAbsent /\ log[LastGround].fin \in log[LastGround].disk) =>
        /\ log[LastGround].fin \notin disk
        /\ results[Len(results)] = Error(<<"Error creating classified file", req.fout>>)

====
